---------------------------- MODULE Spec2Model ----------------------------
(***************************************************************************)
(* Telegram Workforce Bot API (src/app.py): a FastAPI service over an      *)
(* asyncpg connection pool.  The model has the relational store (the four  *)
(* tables the handlers query), the global pool handle, the number of       *)
(* connections checked out, and the bag of requests in flight, each at a   *)
(* position of its handler.                                                *)
(*                                                                         *)
(* Representation.                                                         *)
(*  - a text value whose characters matter (total_hours) is a sequence of  *)
(*    one-character strings; other text values are TLA+ strings;           *)
(*  - a nullable column is << >> (NULL) or <<v>>;                          *)
(*  - a display name is the sequence of its non-empty words, which is what *)
(*    f"{first or ''} {last or ''}".strip() determines;                    *)
(*  - money is kept exact: hours are a whole number of minutes (over 60),  *)
(*    rates a whole number of pence (over 100), and a float the handlers   *)
(*    compute is the fraction num/den; round(x, 2) yields hundredths.      *)
(***************************************************************************)
EXTENDS Integers, Sequences, FiniteSets, Bags, TLC

VARIABLES
    db_pool,                  \* the global pool handle: "None" or "pool"
    phase,                    \* lifespan: "starting", "serving", "stopped"
    inUse,                    \* connections checked out of the pool
    contractor_applications,  \* table: set of contractor rows
    work_sessions,            \* table: set of work-session rows
    jobs,                     \* table: set of job rows
    conversation_history,     \* table: sequence of message rows, by id
    id_seq,                   \* the serial sequence behind conversation_history.id
    now,                      \* the server clock, in ticks
    reqs,                     \* bag of the requests in flight
    returned,                 \* the response most recently returned
    acked                     \* telegram_id -> id of the row of the write
                              \*   that most recently returned success (0: none)

vars == <<db_pool, phase, inUse, contractor_applications, work_sessions, jobs,
          conversation_history, id_seq, now, reqs, returned, acked>>

store == <<contractor_applications, work_sessions, jobs, conversation_history>>

-----------------------------------------------------------------------------
(* Bounds of the model *)

MaxSessions == 2      \* work-session rows in the store
MaxMessages == 2      \* INSERTs into conversation_history
MaxInflight == 2      \* concurrent requests (conversation endpoints)
MaxPoolLoad == 11     \* concurrent requests when the pool is loaded
TicksPerDay == 2      \* clock resolution

(* Program constants *)

max_size == 10        \* asyncpg.create_pool(..., max_size=10)
DefaultRate == 900    \* 9.0, the rate used when admin_pay_rate is falsy
RegisteredCis == 20   \* cis_rate when is_cis_registered == "true"
UnregisteredCis == 30 \* cis_rate otherwise
FlatNetPercent == 80  \* total_net = total_gross * 0.8
WeekDays == 7         \* INTERVAL '7 days'

NULL == << >>
Some(v) == <<v>>

-----------------------------------------------------------------------------
(* Python / SQL primitives the handlers use *)

Digits == {"0", "1", "2", "3", "4", "5", "6", "7", "8", "9"}

DigitVal(c) ==
    CASE c = "0" -> 0 [] c = "1" -> 1 [] c = "2" -> 2 [] c = "3" -> 3
      [] c = "4" -> 4 [] c = "5" -> 5 [] c = "6" -> 6 [] c = "7" -> 7
      [] c = "8" -> 8 [] c = "9" -> 9

(* str.split(":"): the pieces between the separators, empty pieces kept *)
RECURSIVE SplitAcc(_, _, _)
SplitAcc(s, cur, acc) ==
    IF s = << >> THEN Append(acc, cur)
    ELSE IF Head(s) = ":" THEN SplitAcc(Tail(s), << >>, Append(acc, cur))
         ELSE SplitAcc(Tail(s), Append(cur, Head(s)), acc)

split(s) == SplitAcc(s, << >>, << >>)

(* float(part) on the alphabet of the model (digits, ':' and letters):     *)
(* a non-empty run of digits parses, anything else raises ValueError       *)
FloatOk(part) == part # << >> /\ \A i \in 1..Len(part) : part[i] \in Digits

RECURSIVE FloatVal(_)
FloatVal(part) ==
    IF part = << >> THEN 0
    ELSE 10 * FloatVal(SubSeq(part, 1, Len(part) - 1)) + DigitVal(part[Len(part)])

(* if s["total_hours"]: None and '' are falsy *)
Truthy(th) == th # NULL /\ th[1] # << >>

(* lines 170-171 raise IndexError (no second piece) or ValueError *)
ParseRaises(th) ==
    /\ Truthy(th)
    /\ LET time_parts == split(th[1])
       IN  \/ Len(time_parts) < 2
           \/ ~FloatOk(time_parts[1])
           \/ ~FloatOk(time_parts[2])

(* hours = float(time_parts[0]) + float(time_parts[1])/60, in minutes *)
ParseMinutes(th) ==
    LET time_parts == split(th[1])
    IN  60 * FloatVal(time_parts[1]) + FloatVal(time_parts[2])

(* float(M)/60 is exact in binary exactly when M/60 is a multiple of 1/4 *)
ParseExact(th) ==
    LET time_parts == split(th[1]) IN FloatVal(time_parts[2]) % 15 = 0


(* round(x, 2), in hundredths, of the float x whose exact value is         *)
(* num/den hundredths (den > 0).  Python rounds the binary value correctly, *)
(* so away from a tie the result is the nearest hundredth; on a tie it is  *)
(* half-even when the float is the exact value (exact); when the float     *)
(* carries a representation error it lies on either side of the tie, and   *)
(* either neighbour can come out.                                          *)
Round2Truncating(num, den, exact) == {num \div den}

Round2(num, den, exact) ==
    LET q == num \div den
        rem == num % den
    IN  IF 2 * rem < den THEN {q}
        ELSE IF 2 * rem > den THEN {q + 1}
        ELSE IF exact THEN {IF q % 2 = 0 THEN q ELSE q + 1}
        ELSE {q, q + 1}

(* the loop of lines 167-172 and 236-241 over the fetched rows *)
RECURSIVE SumMinutes(_)
SumMinutes(rows) ==
    IF rows = << >> THEN 0
    ELSE (IF Truthy(Head(rows).total_hours)
          THEN ParseMinutes(Head(rows).total_hours) ELSE 0)
         + SumMinutes(Tail(rows))

LoopRaises(rows) == \E i \in 1..Len(rows) : ParseRaises(rows[i].total_hours)

(* str(e) of the first exception the loop raises *)
LoopError(rows) ==
    LET i == CHOOSE k \in 1..Len(rows) :
                 /\ ParseRaises(rows[k].total_hours)
                 /\ \A j \in 1..(k - 1) : ~ParseRaises(rows[j].total_hours)
    IN  IF Len(split(rows[i].total_hours[1])) < 2
        THEN "Database error: list index out of range"
        ELSE "Database error: could not convert string to float"

LoopExact(rows) ==
    \A i \in 1..Len(rows) :
        Truthy(rows[i].total_hours) => ParseExact(rows[i].total_hours)

(* f"{first or ''} {last or ''}".strip() *)
ContractorName(c) == SelectSeq(<<c.first_name, c.last_name>>, LAMBDA w : w # "")

(* CASE WHEN username IN (...) THEN 'day-rate' ELSE 'sub-contractor' END *)
DayRateUsernames == {"dalwayne", "marius", "mohamed", "said.tiss", "hamza"}

WorkerType(username) ==
    IF username \in DayRateUsernames THEN "day-rate" ELSE "sub-contractor"

(* WHERE telegram_id = $1 AND status = 'approved' *)
ApprovedAnyStatus(chat_id) ==
    {c \in contractor_applications : c.telegram_id = chat_id}

Approved(chat_id) ==
    {c \in contractor_applications :
        c.telegram_id = chat_id /\ c.status = "approved"}

(* float(contractor["admin_pay_rate"] or 9.0), in pence *)
HourlyRate(c) ==
    IF c.admin_pay_rate = NULL \/ c.admin_pay_rate[1] = 0
    THEN DefaultRate ELSE c.admin_pay_rate[1]

(* "hourly_rate": float(contractor["admin_pay_rate"] or 0), in pence *)
ReportedRate(c) ==
    IF c.admin_pay_rate = NULL THEN 0 ELSE c.admin_pay_rate[1]

(* a rate of whole pence is an exact float when it is a multiple of 0.25 *)
RateExact(rate) == rate % 25 = 0

(* 20 if contractor["is_cis_registered"] == "true" else 30 *)
CisRateLenient(c) ==
    IF c.is_cis_registered \in {Some("true"), Some("True")}
    THEN RegisteredCis ELSE UnregisteredCis

CisRate(c) ==
    IF c.is_cis_registered = Some("true") THEN RegisteredCis ELSE UnregisteredCis

(* DATE(start_time), CURRENT_DATE *)
DateOf(t) == t \div TicksPerDay
CurrentDate == DateOf(now)

(* DATE(start_time) = CURRENT_DATE *)
InToday(s) == DateOf(s.start_time) = CurrentDate

(* start_time >= CURRENT_DATE - INTERVAL '7 days' *)
InWeekTrailing(s) ==
    s.start_time >= now - WeekDays * TicksPerDay /\ s.start_time <= now

InWeek(s) == s.start_time >= (CurrentDate - WeekDays) * TicksPerDay

(* the orders in which a query may return the rows of S *)
Orderings(S) ==
    {q \in [1..Cardinality(S) -> S] :
        \A i, j \in 1..Cardinality(S) : i # j => q[i] # q[j]}

(* ORDER BY start_time DESC: any order is possible among equal keys *)
ByStartDesc(S) ==
    {q \in Orderings(S) :
        \A i, j \in 1..Len(q) : i < j => q[i].start_time >= q[j].start_time}

(* ORDER BY id DESC *)
ByIdDesc(S) ==
    {q \in Orderings(S) : \A i, j \in 1..Len(q) : i < j => q[i].id > q[j].id}

Reverse(q) == [i \in 1..Len(q) |-> q[Len(q) + 1 - i]]

(* WHERE telegram_id = $1 ORDER BY id DESC LIMIT $2, then reversed(...) *)
OfAnyTelegramId(t) == conversation_history

OfTelegramId(t) == SelectSeq(conversation_history, LAMBDA m : m.telegram_id = t)

LastNOldestKept(t, limit) ==
    LET mine == OfTelegramId(t)
    IN  SubSeq(mine, 1, IF limit < Len(mine) THEN limit ELSE Len(mine))

LastN(t, limit) ==
    LET mine == OfTelegramId(t)
        desc == Reverse(mine)
        taken == SubSeq(desc, 1, IF limit < Len(desc) THEN limit ELSE Len(desc))
    IN  Reverse(taken)

-----------------------------------------------------------------------------
(* Requests in flight *)

NoResponse == [status |-> 0]

(* a request: its endpoint, its parameters (those its endpoint does not    *)
(* take stay at their defaults), its position in the handler, the          *)
(* connections it holds, the contractor row it fetched, the tables it has  *)
(* queried, for a history read of one message the row of the write last    *)
(* acknowledged for its telegram_id when it started, and for a write the   *)
(* id of its row                                                           *)
NewReq(ep, chat_id, period, telegram_id, limit, role, message) ==
    [ep |-> ep, chat_id |-> chat_id, period |-> period,
     telegram_id |-> telegram_id, limit |-> limit, role |-> role,
     message |-> message, pc |-> "acquire", conn |-> 0, contractor |-> {},
     queried |-> {}, seen |-> 0, inserted |-> 0]

Inflight == BagToSet(reqs)

Put(r) == reqs (+) SetToBag({r})
Drop(r) == reqs (-) SetToBag({r})
Move(r, r2) == (reqs (-) SetToBag({r})) (+) SetToBag({r2})

(* the pool takes a released connection back: __aexit__ of pool.acquire() *)
ReleaseLeaks(n, held) == n

Release(n, held) == n - held

(* a handler ends: the connection it holds goes back to the pool on the    *)
(* way out of the async with block, then the response is returned          *)
(* (tables: what its last step queried) *)
Exit(r, tables, status, body, locals) ==
    /\ reqs' = Drop(r)
    /\ inUse' = Release(inUse, r.conn)
    /\ returned' = [req |-> [r EXCEPT !.queried = @ \cup tables],
                    status |-> status, body |-> body, locals |-> locals]

(* except Exception as e: raise HTTPException(500, f"Database error: {e}") *)
Raise500(r, tables, text) ==
    Exit(r, tables, 500, [detail |-> text], [none |-> TRUE])

-----------------------------------------------------------------------------
(* lifespan *)

(* startup: the pool is created when DATABASE_URL is set and the store     *)
(* answers; otherwise db_pool stays None and the service starts anyway     *)
lifespan_startup ==
    /\ phase = "starting"
    /\ phase' = "serving"
    /\ \/ db_pool' = "pool"
       \/ db_pool' = "None"
    /\ returned' = NoResponse
    /\ UNCHANGED <<inUse, store, id_seq, now, reqs, acked>>

(* shutdown, once the server has drained its requests: db_pool.close() *)
lifespan_shutdown ==
    /\ phase = "serving"
    /\ reqs = EmptyBag
    /\ phase' = "stopped"
    /\ returned' = NoResponse
    /\ UNCHANGED <<db_pool, inUse, store, id_seq, now, reqs, acked>>

-----------------------------------------------------------------------------
(* Steps every pooled handler shares *)

(* the request arrives; pool = await get_db() runs without suspending:     *)
(* with no pool it raises HTTPException(500), which the handler's          *)
(* except Exception turns into its own 500                                 *)
Call(r, cap) ==
    /\ phase = "serving"
    /\ BagCardinality(reqs) < cap
    /\ IF db_pool = "None"
       THEN /\ returned' = [req |-> r, status |-> 500,
                            body |-> [detail |-> "Database error: 500: Database connection not available"],
                            locals |-> [none |-> TRUE]]
            /\ UNCHANGED reqs
       ELSE /\ reqs' = Put(r)
            /\ returned' = NoResponse
    /\ UNCHANGED <<db_pool, phase, inUse, store, id_seq, now, acked>>

FirstQuery(ep) ==
    CASE ep = "conversation-history" -> "select"
      [] ep = "save-conversation" -> "insert"
      [] ep = "health" -> "probe"
      [] OTHER -> "lookup"

(* async with pool.acquire() as conn: waits while max_size are out *)
Acquire(r) ==
    /\ r.pc = "acquire"
    /\ inUse < max_size
    /\ inUse' = inUse + 1
    /\ reqs' = Move(r, [r EXCEPT !.pc = FirstQuery(r.ep), !.conn = @ + 1])
    /\ returned' = NoResponse
    /\ UNCHANGED <<db_pool, phase, store, id_seq, now, acked>>

(* pool.acquire() raises (the store cannot be reached) *)
AcquireRaises(r) ==
    /\ r.pc = "acquire"
    /\ r.ep # "health"
    /\ Raise500(r, {}, "Database error: connection failed")
    /\ UNCHANGED <<db_pool, phase, store, id_seq, now, acked>>

(* a query raises; a statement that raises has had no effect on the store *)
QueryRaises(r) ==
    /\ r.pc \in {"lookup", "fetch", "select"}
    /\ Raise500(r, {}, "Database error: query failed")
    /\ UNCHANGED <<db_pool, phase, store, id_seq, now, acked>>

(* fetchrow(... WHERE telegram_id = $1 AND status = 'approved' LIMIT 1)    *)
(* finds no row: the early return of lines 99-104, 136-137, 219-220, ...   *)
NotFoundBody(r) ==
    IF r.ep = "worker-type"
    THEN [success |-> FALSE, error |-> "User not found or not approved",
          chat_id |-> r.chat_id]
    ELSE [success |-> FALSE, error |-> "User not found"]

LookupMisses(r) ==
    /\ r.pc = "lookup"
    /\ Approved(r.chat_id) = {}
    /\ Exit(r, {"contractor_applications"}, 200, NotFoundBody(r),
            [none |-> TRUE])
    /\ UNCHANGED <<db_pool, phase, store, id_seq, now, acked>>

(* fetchrow finds a row (LIMIT 1 without ORDER BY: any matching row) *)
LookupFinds(r) ==
    /\ r.pc = "lookup"
    /\ r.ep # "worker-type"
    /\ \E c \in Approved(r.chat_id) :
          reqs' = Move(r, [r EXCEPT !.pc = "fetch", !.contractor = {c},
                                    !.queried = @ \cup {"contractor_applications"}])
    /\ returned' = NoResponse
    /\ UNCHANGED <<db_pool, phase, inUse, store, id_seq, now, acked>>

TheContractor(r) == CHOOSE c \in r.contractor : TRUE

-----------------------------------------------------------------------------
(* Inputs *)

ChatIds == {c.telegram_id : c \in contractor_applications} \cup {"300"}
Periods == {"today", "week"}
TelegramIds == {1, 2}
Roles == {"user", "assistant"}
Texts == {"hello"}
Limits == {1, 2}          \* ?limit= values tried, of the 1..100 admitted

ContractorReq(ep, chat_id) == NewReq(ep, chat_id, "", 0, 0, "", "")

-----------------------------------------------------------------------------
(* GET /api/telegram/worker-type/{chat_id} *)

WorkerTypeReturns(r) ==
    /\ r.pc = "lookup"
    /\ \E user \in Approved(r.chat_id) :
          Exit(r, {"contractor_applications"}, 200,
               [success |-> TRUE,
                user |-> [name |-> ContractorName(user),
                          username |-> user.username,
                          worker_type |-> WorkerType(user.username)]],
               [none |-> TRUE])
    /\ UNCHANGED <<db_pool, phase, store, id_seq, now, acked>>

get_worker_type(cap) ==
    \/ \E chat_id \in ChatIds : Call(ContractorReq("worker-type", chat_id), cap)
    \/ \E r \in Inflight :
          /\ r.ep = "worker-type"
          /\ \/ Acquire(r)
             \/ AcquireRaises(r)
             \/ QueryRaises(r)
             \/ LookupMisses(r)
             \/ WorkerTypeReturns(r)

-----------------------------------------------------------------------------
(* GET /api/telegram/hours/{chat_id}?period= *)

HoursWindow(period, s) == IF period = "today" THEN InToday(s) ELSE InWeek(s)

HoursReturns(r) ==
    /\ r.pc = "fetch"
    /\ LET contractor == TheContractor(r)
           contractor_name == ContractorName(contractor)
           hourly_rate == HourlyRate(contractor)
           matching == {s \in work_sessions :
                           /\ s.contractor_name = contractor_name
                           /\ HoursWindow(r.period, s)}
       IN  \E sessions \in ByStartDesc(matching) :
              IF LoopRaises(sessions)
              THEN Raise500(r, {"work_sessions"}, LoopError(sessions))
              ELSE LET total_hours == SumMinutes(sessions)
                       exact == LoopExact(sessions) /\ RateExact(hourly_rate)
                   IN  \E h \in Round2(5 * total_hours, 3, LoopExact(sessions)),
                          g \in Round2(total_hours * hourly_rate, 60, exact),
                          n \in Round2(total_hours * hourly_rate * FlatNetPercent,
                                       6000, FALSE) :
                          Exit(r, {"work_sessions"}, 200,
                               [success |-> TRUE, period |-> r.period,
                                contractor_name |-> contractor_name,
                                summary |-> [total_hours |-> h,
                                             total_sessions |-> Len(sessions),
                                             total_gross_pay |-> g,
                                             total_net_pay |-> n],
                                sessions |-> [i \in 1..Len(sessions) |->
                                    [id |-> sessions[i].id,
                                     start_time |-> sessions[i].start_time,
                                     hours |-> IF Truthy(sessions[i].total_hours)
                                               THEN sessions[i].total_hours[1]
                                               ELSE <<"0", ":", "0", "0">>]]],
                               [total_hours |-> total_hours,
                                hourly_rate |-> hourly_rate,
                                sessions |-> sessions])
    /\ UNCHANGED <<db_pool, phase, store, id_seq, now, acked>>

get_hours_summary(cap) ==
    \/ \E chat_id \in ChatIds, period \in Periods :
          Call(NewReq("hours", chat_id, period, 0, 0, "", ""), cap)
    \/ \E r \in Inflight :
          /\ r.ep = "hours"
          /\ \/ Acquire(r)
             \/ AcquireRaises(r)
             \/ QueryRaises(r)
             \/ LookupMisses(r)
             \/ LookupFinds(r)
             \/ HoursReturns(r)

-----------------------------------------------------------------------------
(* GET /api/telegram/payments/{chat_id} *)

PaymentsReturns(r) ==
    /\ r.pc = "fetch"
    /\ LET contractor == TheContractor(r)
           contractor_name == ContractorName(contractor)
           matching == {s \in work_sessions :
                           s.contractor_name = contractor_name /\ InWeek(s)}
       IN  \E week_sessions \in Orderings(matching) :
              IF LoopRaises(week_sessions)
              THEN Raise500(r, {"work_sessions"}, LoopError(week_sessions))
              ELSE LET total_week_hours == SumMinutes(week_sessions)
                       hourly_rate == HourlyRate(contractor)
                       cis_rate == CisRate(contractor)
                       exact == LoopExact(week_sessions) /\ RateExact(hourly_rate)
                   IN  \E g \in Round2(total_week_hours * hourly_rate, 60, exact),
                          n \in Round2(total_week_hours * hourly_rate
                                          * (100 - cis_rate), 6000, FALSE),
                          d \in Round2(total_week_hours * hourly_rate * cis_rate,
                                       6000, FALSE) :
                          Exit(r, {"work_sessions"}, 200,
                               [success |-> TRUE,
                                contractor_name |-> contractor_name,
                                payment_info |->
                                    [hourly_rate |-> ReportedRate(contractor),
                                     cis_registered |->
                                         contractor.is_cis_registered = Some("true"),
                                     cis_rate |-> CisRate(contractor),
                                     this_week_gross |-> g,
                                     this_week_net |-> n,
                                     cis_deduction |-> d]],
                               [total_week_hours |-> total_week_hours,
                                hourly_rate |-> hourly_rate,
                                cis_rate |-> cis_rate,
                                week_sessions |-> week_sessions])
    /\ UNCHANGED <<db_pool, phase, store, id_seq, now, acked>>

get_payment_status(cap) ==
    \/ \E chat_id \in ChatIds : Call(ContractorReq("payments", chat_id), cap)
    \/ \E r \in Inflight :
          /\ r.ep = "payments"
          /\ \/ Acquire(r)
             \/ AcquireRaises(r)
             \/ QueryRaises(r)
             \/ LookupMisses(r)
             \/ LookupFinds(r)
             \/ PaymentsReturns(r)

-----------------------------------------------------------------------------
(* GET /api/telegram/subcontractor/quotes|milestones|payment-status/{chat_id} *)

JobsOf(r) ==
    {j \in jobs : j.contractor_name = ContractorName(TheContractor(r))}

JobsBody(r, rows) ==
    [success |-> TRUE,
     contractor_name |-> ContractorName(TheContractor(r)),
     data |-> [i \in 1..Len(rows) |-> [id |-> rows[i].id, status |-> rows[i].status]]]

(* SELECT ... FROM jobs WHERE contractor_name = $1 ORDER BY id DESC *)
JobsReturnsOrdered(r) ==
    /\ r.pc = "fetch"
    /\ \E rows \in ByIdDesc(JobsOf(r)) :
          Exit(r, {"jobs"}, 200, JobsBody(r, rows), [none |-> TRUE])
    /\ UNCHANGED <<db_pool, phase, store, id_seq, now, acked>>

(* SELECT ... FROM jobs WHERE contractor_name = $1, in no stated order *)
JobsReturnsUnordered(r) ==
    /\ r.pc = "fetch"
    /\ \E rows \in Orderings(JobsOf(r)) :
          Exit(r, {"jobs"}, 200, JobsBody(r, rows), [none |-> TRUE])
    /\ UNCHANGED <<db_pool, phase, store, id_seq, now, acked>>

get_subcontractor_quotes(cap) ==
    \/ \E chat_id \in ChatIds : Call(ContractorReq("quotes", chat_id), cap)
    \/ \E r \in Inflight :
          /\ r.ep = "quotes"
          /\ \/ Acquire(r)
             \/ AcquireRaises(r)
             \/ QueryRaises(r)
             \/ LookupMisses(r)
             \/ LookupFinds(r)
             \/ JobsReturnsOrdered(r)

get_subcontractor_milestones(cap) ==
    \/ \E chat_id \in ChatIds : Call(ContractorReq("milestones", chat_id), cap)
    \/ \E r \in Inflight :
          /\ r.ep = "milestones"
          /\ \/ Acquire(r)
             \/ AcquireRaises(r)
             \/ QueryRaises(r)
             \/ LookupMisses(r)
             \/ LookupFinds(r)
             \/ JobsReturnsOrdered(r)

get_subcontractor_payment_status(cap) ==
    \/ \E chat_id \in ChatIds : Call(ContractorReq("payment-status", chat_id), cap)
    \/ \E r \in Inflight :
          /\ r.ep = "payment-status"
          /\ \/ Acquire(r)
             \/ AcquireRaises(r)
             \/ QueryRaises(r)
             \/ LookupMisses(r)
             \/ LookupFinds(r)
             \/ JobsReturnsUnordered(r)

-----------------------------------------------------------------------------
(* GET /api/telegram/conversation-history/{telegram_id}?limit= *)

HistoryReturns(r) ==
    /\ r.pc = "select"
    /\ LET messages == LastN(r.telegram_id, r.limit)
       IN  Exit(r, {"conversation_history"}, 200,
                [success |-> TRUE,
                 messages |-> [i \in 1..Len(messages) |->
                                  [role |-> messages[i].role,
                                   content |-> messages[i].message]]],
                [messages |-> messages])
    /\ UNCHANGED <<db_pool, phase, store, id_seq, now, acked>>

(* limit: Query(ge=1, le=100); a read of one message notes the write      *)
(* acknowledged last for its telegram_id                                   *)
get_conversation_history(cap) ==
    \/ \E telegram_id \in TelegramIds, limit \in Limits :
          Call([NewReq("conversation-history", "", "", telegram_id, limit, "", "")
                   EXCEPT !.seen = IF limit = 1 THEN acked[telegram_id] ELSE 0],
               cap)
    \/ \E r \in Inflight :
          /\ r.ep = "conversation-history"
          /\ \/ Acquire(r)
             \/ AcquireRaises(r)
             \/ QueryRaises(r)
             \/ HistoryReturns(r)

-----------------------------------------------------------------------------
(* POST /api/telegram/conversation-history *)

(* INSERT INTO conversation_history (telegram_id, role, message): the row  *)
(* takes the next value of the id sequence                                 *)
NewRow(r) ==
    [id |-> id_seq + 1, telegram_id |-> r.telegram_id, role |-> r.role,
     message |-> r.message]

AppendedAtFront(table, row) == <<row>> \o table

Appended(table, row) == Append(table, row)

InsertExecutes(r) ==
    /\ r.pc = "insert"
    /\ conversation_history' = Appended(conversation_history, NewRow(r))
    /\ id_seq' = id_seq + 1
    /\ reqs' = Move(r, [r EXCEPT !.pc = "inserted", !.inserted = id_seq + 1,
                                 !.queried = @ \cup {"conversation_history"}])
    /\ returned' = NoResponse
    /\ UNCHANGED <<db_pool, phase, inUse, contractor_applications, work_sessions,
                   jobs, now, acked>>

(* the INSERT raises: a statement that raises has had no effect *)
InsertRaises(r) ==
    /\ r.pc = "insert"
    /\ Raise500(r, {}, "Database error: query failed")
    /\ UNCHANGED <<db_pool, phase, store, id_seq, now, acked>>

(* return {"success": True}, after the connection is released *)
SaveReturns(r) ==
    /\ r.pc = "inserted"
    /\ Exit(r, {}, 200, [success |-> TRUE], [none |-> TRUE])
    /\ acked' = [acked EXCEPT ![r.telegram_id] = r.inserted]
    /\ UNCHANGED <<db_pool, phase, store, id_seq, now>>

(* writes not yet past their INSERT *)
PendingInserts ==
    LET S == {r \in Inflight : r.ep = "save-conversation" /\ r.pc # "inserted"}
        RECURSIVE Count(_)
        Count(T) == IF T = {} THEN 0
                    ELSE LET x == CHOOSE y \in T : TRUE
                         IN  CopiesIn(x, reqs) + Count(T \ {x})
    IN  Count(S)

save_conversation_message(cap) ==
    \/ /\ id_seq + PendingInserts < MaxMessages
       /\ \E telegram_id \in TelegramIds, role \in Roles, message \in Texts :
             Call(NewReq("save-conversation", "", "", telegram_id, 0, role, message),
                  cap)
    \/ \E r \in Inflight :
          /\ r.ep = "save-conversation"
          /\ \/ Acquire(r)
             \/ AcquireRaises(r)
             \/ InsertExecutes(r)
             \/ InsertRaises(r)
             \/ SaveReturns(r)

-----------------------------------------------------------------------------
(* GET /health, GET / and POST /twiml/test *)

HealthBody(db_status) == [status |-> "healthy", database |-> db_status]

HealthReq == NewReq("health", "", "", 0, 0, "", "")

(* if db_pool: ... else: db_status = "not configured" *)
HealthCall(cap) ==
    /\ phase = "serving"
    /\ BagCardinality(reqs) < cap
    /\ IF db_pool = "None"
       THEN /\ returned' = [req |-> HealthReq, status |-> 200,
                            body |-> HealthBody("not configured"),
                            locals |-> [raised |-> FALSE]]
            /\ UNCHANGED reqs
       ELSE /\ reqs' = Put(HealthReq)
            /\ returned' = NoResponse
    /\ UNCHANGED <<db_pool, phase, inUse, store, id_seq, now, acked>>

(* except Exception as e: db_status = f"error: {str(e)}" *)
HealthAcquireRaisesUncaught(r) ==
    /\ r.pc = "acquire"
    /\ Raise500(r, {}, "Internal Server Error")
    /\ UNCHANGED <<db_pool, phase, store, id_seq, now, acked>>

HealthAcquireRaises(r) ==
    /\ r.pc = "acquire"
    /\ Exit(r, {}, 200, HealthBody("error: connection failed"),
            [raised |-> TRUE])
    /\ UNCHANGED <<db_pool, phase, store, id_seq, now, acked>>

HealthProbeRaises(r) ==
    /\ r.pc = "probe"
    /\ Exit(r, {}, 200, HealthBody("error: query failed"), [raised |-> TRUE])
    /\ UNCHANGED <<db_pool, phase, store, id_seq, now, acked>>

(* await conn.fetchval("SELECT 1") *)
HealthProbeAnswers(r) ==
    /\ r.pc = "probe"
    /\ Exit(r, {}, 200, HealthBody("connected"), [raised |-> FALSE])
    /\ UNCHANGED <<db_pool, phase, store, id_seq, now, acked>>

health(cap) ==
    \/ HealthCall(cap)
    \/ \E r \in Inflight :
          /\ r.ep = "health"
          /\ \/ Acquire(r)
             \/ HealthAcquireRaises(r)
             \/ HealthProbeRaises(r)
             \/ HealthProbeAnswers(r)

root ==
    /\ phase = "serving"
    /\ returned' = [req |-> NewReq("root", "", "", 0, 0, "", ""), status |-> 200,
                    body |-> [status |-> "online",
                              database |-> IF db_pool = "None" THEN "disconnected"
                                           ELSE "connected"],
                    locals |-> [none |-> TRUE]]
    /\ UNCHANGED <<db_pool, phase, inUse, store, id_seq, now, reqs, acked>>

twiml_test ==
    /\ phase = "serving"
    /\ returned' = [req |-> NewReq("twiml", "", "", 0, 0, "", ""), status |-> 200,
                    body |-> [xml |-> "<Response><Say>Twilio test path is working.</Say><Hangup/></Response>"],
                    locals |-> [none |-> TRUE]]
    /\ UNCHANGED <<db_pool, phase, inUse, store, id_seq, now, reqs, acked>>

-----------------------------------------------------------------------------
(* Stores *)

Str(chars) == Some(chars)

Ann == [telegram_id |-> "100", status |-> "approved", first_name |-> "Ann",
        last_name |-> "Lee", username |-> "marius",
        admin_pay_rate |-> Some(1250), is_cis_registered |-> NULL]

Bob == [telegram_id |-> "200", status |-> "pending", first_name |-> "Bob",
        last_name |-> "", username |-> "bob",
        admin_pay_rate |-> NULL, is_cis_registered |-> Some("true")]

(* total_hours values: "H:MM" strings, a NULL and an empty string, and     *)
(* strings with no separator or a non-numeric part                         *)
WellFormedHours ==
    {Str(<<"4", ":", "3", "0">>), Str(<<"3", ":", "1", "5">>),
     Str(<<"0", ":", "2", "0">>), Str(<<"1", ":", "0", "0">>)}

AbsentHours == {NULL, Str(<< >>)}

MalformedHours ==
    {Str(<<"4", "3", "0">>), Str(<<"x", ":", "3", "0">>),
     Str(<<"4", ":", "x">>), Str(<<"4", ":">>)}

HoursValues == WellFormedHours \cup AbsentHours \cup MalformedHours

PayRates == {NULL, Some(0), Some(1250), Some(1255)}
CisValues == {NULL, Some("true"), Some("True"), Some("false")}

(* the tables of n rows with the given column values, ids 1..n *)
SessionTables(names, starts, hours) ==
    UNION {
        { {[id |-> i, contractor_name |-> f[i].n, start_time |-> f[i].s,
            total_hours |-> f[i].h] : i \in 1..k} :
          f \in [1..k -> [n : names, s : starts, h : hours]] }
        : k \in 0..MaxSessions }

SomeJobs ==
    {[id |-> 1, contractor_name |-> <<"Ann", "Lee">>, status |-> "completed"],
     [id |-> 2, contractor_name |-> <<"Ann", "Lee">>, status |-> "assigned"],
     [id |-> 3, contractor_name |-> <<"Bob">>, status |-> "pending"]}

Noon == 8 * TicksPerDay + 1

InitService ==
    /\ db_pool = "None"
    /\ phase = "starting"
    /\ inUse = 0
    /\ conversation_history = << >>
    /\ id_seq = 0
    /\ reqs = EmptyBag
    /\ returned = NoResponse
    /\ acked = [t \in TelegramIds |-> 0]

(* one approved contractor, any pay rate and registration flag, and any    *)
(* total_hours strings on the sessions of this week                        *)
InitPay ==
    /\ InitService
    /\ now = Noon
    /\ \E rate \in PayRates, cis \in CisValues :
          contractor_applications =
              {[Ann EXCEPT !.admin_pay_rate = rate, !.is_cis_registered = cis]}
    /\ work_sessions \in SessionTables({<<"Ann", "Lee">>}, {Noon - 1}, HoursValues)
    /\ jobs = SomeJobs

NextPay ==
    \/ lifespan_startup
    \/ lifespan_shutdown
    \/ get_hours_summary(1)
    \/ get_payment_status(1)

SpecPay == InitPay /\ [][NextPay]_vars

(* the service over a store with an approved contractor, one awaiting      *)
(* approval, sessions and jobs: every endpoint, one request at a time      *)
AnnSessions ==
    {[id |-> 1, contractor_name |-> <<"Ann", "Lee">>, start_time |-> Noon - 1,
      total_hours |-> Str(<<"4", ":", "3", "0">>)],
     [id |-> 2, contractor_name |-> <<"Bob">>, start_time |-> Noon,
      total_hours |-> NULL]}

Init ==
    /\ InitService
    /\ now = Noon
    /\ contractor_applications = {Ann, Bob}
    /\ work_sessions = AnnSessions
    /\ jobs = SomeJobs

Next ==
    \/ lifespan_startup
    \/ lifespan_shutdown
    \/ get_worker_type(1)
    \/ get_hours_summary(1)
    \/ get_payment_status(1)
    \/ get_subcontractor_quotes(1)
    \/ get_subcontractor_milestones(1)
    \/ get_subcontractor_payment_status(1)
    \/ get_conversation_history(1)
    \/ save_conversation_message(1)
    \/ health(1)
    \/ root
    \/ twiml_test

Spec == Init /\ [][Next]_vars

(* the conversation endpoints under concurrent requests *)
NextConv ==
    \/ lifespan_startup
    \/ lifespan_shutdown
    \/ get_conversation_history(MaxInflight)
    \/ save_conversation_message(MaxInflight)

SpecConv == Init /\ [][NextConv]_vars

(* the pool under more requests than it has connections *)
NextPool ==
    \/ lifespan_startup
    \/ lifespan_shutdown
    \/ get_payment_status(MaxPoolLoad)

InitPool ==
    /\ InitService
    /\ now = Noon
    /\ contractor_applications = {Ann}
    /\ work_sessions = AnnSessions
    /\ jobs = SomeJobs

SpecPool == InitPool /\ [][NextPool]_vars

(* the hours endpoint over sessions that start around the edges of its    *)
(* windows: the tick before the week starts, the start of the week, seven  *)
(* days before now, the start of today, now, and a tick after now          *)
WeekStart(t) == (DateOf(t) - WeekDays) * TicksPerDay

StartTimes(t) ==
    {WeekStart(t) - 1, WeekStart(t), t - WeekDays * TicksPerDay,
     DateOf(t) * TicksPerDay, t, t + 1}

InitWindow ==
    /\ InitService
    /\ now \in {Noon - 1, Noon}
    /\ contractor_applications = {Ann}
    /\ work_sessions \in SessionTables({<<"Ann", "Lee">>}, StartTimes(now),
                                       {Str(<<"1", ":", "0", "0">>)})
    /\ jobs = SomeJobs

NextWindow ==
    \/ lifespan_startup
    \/ lifespan_shutdown
    \/ get_hours_summary(1)

SpecWindow == InitWindow /\ [][NextWindow]_vars

-----------------------------------------------------------------------------
(* Properties *)

Answered(ep) == returned.status # 0 /\ returned.req.ep = ep

(* the minutes an "H:MM" string stands for, read off its characters *)
IsHMM(th) ==
    /\ th # NULL
    /\ Len(th[1]) = 4
    /\ th[1][2] = ":"
    /\ \A i \in {1, 3, 4} : th[1][i] \in Digits

MinutesOfHMM(th) ==
    60 * DigitVal(th[1][1]) + 10 * DigitVal(th[1][3]) + DigitVal(th[1][4])

RECURSIVE ExpectedMinutes(_)
ExpectedMinutes(rows) ==
    IF rows = << >> THEN 0
    ELSE (IF IsHMM(Head(rows).total_hours)
          THEN MinutesOfHMM(Head(rows).total_hours) ELSE 0)
         + ExpectedMinutes(Tail(rows))

(* C1: in the hours and the payments endpoint, once the work sessions are  *)
(* fetched the request succeeds whatever their total_hours strings are: an *)
(* absent or malformed string contributes 0 to the sum, a well-formed      *)
(* "H:MM" contributes H + MM/60, and no such entry ends the request in an  *)
(* HTTP 500.                                                               *)
C1_MalformedHoursContributeZero ==
    \A ep \in {"hours", "payments"} :
        (Answered(ep) /\ "work_sessions" \in returned.req.queried) =>
            /\ returned.status = 200
            /\ returned.body.success
            /\ IF ep = "hours"
               THEN returned.locals.total_hours
                        = ExpectedMinutes(returned.locals.sessions)
               ELSE returned.locals.total_week_hours
                        = ExpectedMinutes(returned.locals.week_sessions)

PaymentsAnswer ==
    /\ Answered("payments")
    /\ returned.status = 200
    /\ returned.body.success

Abs(x) == IF x < 0 THEN -x ELSE x

(* num/den rounds to q: q is within half a unit of num/den *)
NearestTo(q, num, den) == 2 * Abs(q * den - num) <= den

C4_Scenario ==
    /\ PaymentsAnswer
    /\ TheContractor(returned.req).admin_pay_rate = Some(1250)
    /\ TheContractor(returned.req).is_cis_registered # Some("true")
    /\ Cardinality(work_sessions) = 2
    /\ {s.total_hours : s \in work_sessions}
           = {Str(<<"4", ":", "3", "0">>), Str(<<"3", ":", "1", "5">>)}

(* C4 as stated: the scenario yields total hours 7.75, gross 96.88,        *)
(* net 67.81 and deduction 29.07.                                          *)
C4_AsStated ==
    C4_Scenario =>
        /\ returned.locals.total_week_hours = 465
        /\ returned.body.payment_info.this_week_gross = 9688
        /\ returned.body.payment_info.this_week_net = 6781
        /\ returned.body.payment_info.cis_deduction = 2907

(* C4: the scenario yields total hours 7.75 (465 minutes), gross 96.88,    *)
(* net 67.81 and deduction 29.06: the deduction is the rounded difference  *)
(* of the unrounded gross and net, round(29.0625, 2).                      *)
C4_Scenario_Amended ==
    C4_Scenario =>
        /\ returned.locals.total_week_hours = 465
        /\ returned.body.payment_info.cis_rate = 30
        /\ returned.body.payment_info.this_week_gross = 9688
        /\ returned.body.payment_info.this_week_net = 6781
        /\ returned.body.payment_info.cis_deduction = 2906

C4_Witness == C4_Scenario /\ returned.body.payment_info.cis_deduction = 2906


ContractorEndpoints ==
    {"worker-type", "hours", "payments", "quotes", "milestones", "payment-status"}

(* C2: on each of the six contractor endpoints, when the lookup ran (the   *)
(* store was available) and no contractor row has telegram_id = chat_id    *)
(* and status 'approved', the answer is HTTP 200 with success = false and  *)
(* an error text that begins "User not found", and neither work_sessions   *)
(* nor jobs was queried.                                                   *)
C2_NotFoundIsNotAnError ==
    \A ep \in ContractorEndpoints :
        ( /\ Answered(ep)
          /\ "contractor_applications" \in returned.req.queried
          /\ ~\E c \in contractor_applications :
                 c.telegram_id = returned.req.chat_id /\ c.status = "approved" )
        => /\ returned.status = 200
           /\ returned.body.success = FALSE
           /\ returned.body.error
                  \in {"User not found", "User not found or not approved"}
           /\ returned.req.queried = {"contractor_applications"}

C2_Witness ==
    /\ Answered("hours")
    /\ returned.req.chat_id = "200"
    /\ \E c \in contractor_applications :
          c.telegram_id = "200" /\ c.status # "approved"
    /\ returned.status = 200
    /\ returned.body.success = FALSE

HistoryAnswer ==
    /\ Answered("conversation-history")
    /\ returned.status = 200

RowsOf(t) ==
    {conversation_history[i] : i \in {j \in DOMAIN conversation_history :
                                         conversation_history[j].telegram_id = t}}

Min(a, b) == IF a < b THEN a ELSE b

(* C5: a history read for telegram_id t with limit N returns exactly the   *)
(* min(N, number of stored messages of t) most recently inserted messages  *)
(* of t, none of another telegram_id, oldest first (increasing id).        *)
C5_LastNOldestFirst ==
    HistoryAnswer =>
        LET t == returned.req.telegram_id
            got == returned.locals.messages
            ids == {got[i].id : i \in DOMAIN got}
        IN  /\ Len(got) = Min(returned.req.limit, Cardinality(RowsOf(t)))
            /\ \A i \in DOMAIN got : got[i] \in RowsOf(t)
            /\ \A i, j \in DOMAIN got : i < j => got[i].id < got[j].id
            /\ \A m \in RowsOf(t) :
                  m.id \notin ids => \A i \in DOMAIN got : m.id < got[i].id
            /\ Len(returned.body.messages) = Len(got)
            /\ \A i \in DOMAIN got :
                  returned.body.messages[i]
                      = [role |-> got[i].role, content |-> got[i].message]

C5_Witness ==
    /\ HistoryAnswer
    /\ returned.req.limit = 1
    /\ Cardinality(RowsOf(returned.req.telegram_id)) = 2
    /\ Len(returned.body.messages) = 1
    /\ returned.locals.messages[1].id = 2

(* a read of one message that started after a write for its telegram_id    *)
(* had returned success; seen is the row of the last such write            *)
ReadAfterWrite ==
    /\ HistoryAnswer
    /\ returned.req.limit = 1
    /\ returned.req.seen # 0

WrittenRow(id) ==
    CHOOSE m \in {conversation_history[i] : i \in DOMAIN conversation_history} :
        m.id = id

(* C6 as stated: a read with limit=1 that starts after a write for t has   *)
(* returned success, no other write for t having returned in between,      *)
(* returns exactly the message written.                                    *)
C6_AsStated ==
    ReadAfterWrite =>
        returned.body.messages
            = <<[role |-> WrittenRow(returned.req.seen).role,
                 content |-> WrittenRow(returned.req.seen).message]>>

(* C6: ... provided no other INSERT for t has taken effect between the     *)
(* INSERT of that write and the query of the read (a write for t that is   *)
(* still in flight counts); requests for other telegram_ids may interleave *)
(* freely.                                                                 *)
C6_ReadYourWrite ==
    ( /\ ReadAfterWrite
      /\ \A m \in RowsOf(returned.req.telegram_id) : m.id <= returned.req.seen )
    => returned.body.messages
           = <<[role |-> WrittenRow(returned.req.seen).role,
                content |-> WrittenRow(returned.req.seen).message]>>

C6_Witness ==
    /\ ReadAfterWrite
    /\ \A m \in RowsOf(returned.req.telegram_id) : m.id <= returned.req.seen
    /\ \E i \in DOMAIN conversation_history :
          /\ conversation_history[i].telegram_id # returned.req.telegram_id
          /\ conversation_history[i].id > returned.req.seen
    /\ Len(returned.body.messages) = 1

RECURSIVE HeldBy(_)
HeldBy(S) ==
    IF S = {} THEN 0
    ELSE LET r == CHOOSE x \in S : TRUE
         IN  r.conn * CopiesIn(r, reqs) + HeldBy(S \ {r})

(* C7: every request holds at most one pool connection, the connections    *)
(* in use are exactly those held by requests in flight (a request that     *)
(* has ended holds none), they never exceed the pool maximum of 10, and    *)
(* none is in use once every request has finished.                         *)
C7_ConnectionsReleased ==
    /\ \A r \in Inflight : r.conn \in {0, 1}
    /\ inUse = HeldBy(Inflight)
    /\ inUse <= 10
    /\ reqs = EmptyBag => inUse = 0

C7_Witness ==
    /\ inUse = 10
    /\ \E r \in Inflight : r.pc = "acquire"
    /\ \E r \in Inflight : r.pc = "fetch"

HealthAnswer == Answered("health")

(* C8 as stated: /health never raises and always answers "healthy"; when   *)
(* the pool is unset or the store is unreachable (acquire or probe         *)
(* raises) database is "not configured".                                   *)
C8_AsStated ==
    HealthAnswer =>
        /\ returned.status = 200
        /\ returned.body.status = "healthy"
        /\ (db_pool = "None" \/ returned.locals.raised)
               => returned.body.database = "not configured"

(* C8: /health never raises and always answers status "healthy"; database  *)
(* is "not configured" when the pool is unset, "error: <text>" when the    *)
(* pool is set and acquire or the probe raises, "connected" otherwise.     *)
C8_HealthDegrades ==
    HealthAnswer =>
        /\ returned.status = 200
        /\ returned.body.status = "healthy"
        /\ returned.body.database =
               (IF db_pool = "None" THEN "not configured"
                ELSE IF returned.locals.raised
                     THEN (IF returned.req.pc = "acquire"
                           THEN "error: connection failed"
                           ELSE "error: query failed")
                     ELSE "connected")

C8_Witness ==
    /\ HealthAnswer
    /\ db_pool = "pool"
    /\ returned.locals.raised
    /\ returned.req.pc = "acquire"
    /\ returned.body.status = "healthy"


SaveAnswered(status) ==
    /\ returned' # returned
    /\ returned'.status = status
    /\ returned'.req.ep = "save-conversation"

(* C9: no step changes the contractor, work-session or job table; the      *)
(* message table changes only by the INSERT of a POST conversation-history *)
(* in flight, which appends one row with that request's telegram_id, role  *)
(* and text and an id no stored row has, and leaves the stored rows and    *)
(* their order as they were; a POST answered 500 has added nothing, and a  *)
(* POST answered success has its row stored.                               *)
C9_StoreFrame ==
    [][ /\ UNCHANGED <<contractor_applications, work_sessions, jobs>>
        /\ conversation_history' # conversation_history =>
              /\ Len(conversation_history') = Len(conversation_history) + 1
              /\ SubSeq(conversation_history', 1, Len(conversation_history))
                     = conversation_history
              /\ LET row == conversation_history'[Len(conversation_history')]
                 IN  /\ \E r \in Inflight :
                           /\ r.ep = "save-conversation"
                           /\ row.telegram_id = r.telegram_id
                           /\ row.role = r.role
                           /\ row.message = r.message
                     /\ \A i \in DOMAIN conversation_history :
                           conversation_history[i].id # row.id
        /\ SaveAnswered(500) =>
              /\ conversation_history' = conversation_history
              /\ returned'.req.inserted = 0
        /\ SaveAnswered(200) =>
              /\ conversation_history' = conversation_history
              /\ Cardinality({i \in DOMAIN conversation_history :
                     conversation_history[i] =
                         [id |-> returned'.req.inserted,
                          telegram_id |-> returned'.req.telegram_id,
                          role |-> returned'.req.role,
                          message |-> returned'.req.message]}) = 1
      ]_vars

C9_Witness ==
    /\ Answered("save-conversation")
    /\ returned.status = 200
    /\ returned.req.inserted = 2
    /\ Len(conversation_history) = 2
    /\ conversation_history[1].id = 1

HoursAnswer ==
    /\ Answered("hours")
    /\ returned.status = 200
    /\ returned.body.success

SessionsOfContractor ==
    {s \in work_sessions :
        s.contractor_name = ContractorName(TheContractor(returned.req))}

Listed == {returned.body.sessions[i].id : i \in DOMAIN returned.body.sessions}

ListedDescending ==
    /\ Len(returned.body.sessions) = Cardinality(Listed)
    /\ \A i, j \in DOMAIN returned.body.sessions :
          i < j => returned.body.sessions[i].start_time
                       >= returned.body.sessions[j].start_time

(* C10 as stated: with period "today" a session is listed exactly when its *)
(* start time falls on the current date; with period "week" exactly when   *)
(* its start time is not earlier than 7 days before now and not later than *)
(* now; the sessions are listed in descending start-time order.            *)
C10_AsStated ==
    HoursAnswer =>
        /\ \A s \in SessionsOfContractor :
              s.id \in Listed <=>
                  IF returned.req.period = "today"
                  THEN s.start_time \div TicksPerDay = now \div TicksPerDay
                  ELSE /\ s.start_time >= now - 7 * TicksPerDay
                       /\ s.start_time <= now
        /\ ListedDescending

(* C10: ... with period "week" exactly when its start time is at or after  *)
(* the start (00:00) of the date 7 days before the current date; sessions  *)
(* that start later than now are listed too.                               *)
C10_Windows ==
    HoursAnswer =>
        /\ \A s \in SessionsOfContractor :
              s.id \in Listed <=>
                  IF returned.req.period = "today"
                  THEN s.start_time \div TicksPerDay = now \div TicksPerDay
                  ELSE s.start_time \div TicksPerDay >= (now \div TicksPerDay) - 7
        /\ ListedDescending

C10_Witness ==
    /\ HoursAnswer
    /\ returned.req.period = "week"
    /\ Len(returned.body.sessions) = 2
    /\ returned.body.sessions[1].start_time = now + 1
    /\ returned.body.sessions[2].start_time < now - 7 * TicksPerDay

(* C11: in a payments answer the reported hourly_rate is the rate the pay  *)
(* was computed with, also for a contractor whose stored admin_pay_rate is *)
(* null or zero (rate applied: the default 9.0): this_week_gross is the    *)
(* week's hours times the reported hourly_rate, rounded to 2 decimals.     *)
C11_ReportedRateIsUsed ==
    PaymentsAnswer =>
        LET p == returned.body.payment_info
        IN  /\ p.hourly_rate = returned.locals.hourly_rate
            /\ NearestTo(p.this_week_gross,
                         returned.locals.total_week_hours * p.hourly_rate, 60)

=============================================================================
